---- MODULE Spec2Model ----
(***************************************************************************)
(* Model of the xAPI statement ingestion and progress derivation of        *)
(* src/main.py: record_statement (live path, with the denormalized upsert  *)
(* of update_progress_from_statement) and get_progress (stored records,    *)
(* else the fallback replay over the stored statements).                   *)
(*                                                                         *)
(* JSON values are tagged records, so that a missing key, null, a string,  *)
(* a number, a boolean and a nested object are all distinct values.        *)
(* Strings are sequences of one-character strings, so that "/" splitting   *)
(* and the substring test for "completed" are computed, not assumed.       *)
(* A scaled score is a rational with denominator 1000 (field milli).       *)
(***************************************************************************)
EXTENDS Integers, Sequences, FiniteSets, TLC

VARIABLES
    statements,   \* the "statement" collection, in insertion order
    progress,     \* the "progress" collection, in insertion order
    clock,        \* the value the next datetime.now(timezone.utc) returns
    requests,     \* number of POST /xapi/statements requests handled so far
    response,     \* what the last request returned to its caller
    last,         \* the last request: its input and how far it got
    upsertFailed, \* TRUE once some progress upsert has raised
    inflight,     \* requests between create_document and the end of the upsert
    overlapped    \* TRUE once two such requests have been in flight together

vars ==
    <<statements, progress, clock, requests, response, last, upsertFailed,
      inflight, overlapped>>

\* Number of POST /xapi/statements requests explored.
MaxRequests == 3

\* Number of requests in flight at once (the handlers run on a thread pool).
MaxInFlight == 2

-----------------------------------------------------------------------------
(* JSON / Python values *)

Absent == [t |-> "absent"]               \* the key is not in the dict
NoneV == [t |-> "none"]                  \* None / null
Str(s) == [t |-> "str", s |-> s]
Num(n) == [t |-> "num", milli |-> n]     \* the number n / 1000
BoolV(b) == [t |-> "bool", b |-> b]
IntV(i) == [t |-> "int", i |-> i]

\* dict.get(key): None when the key is missing.
Get(v) == IF v = Absent THEN NoneV ELSE v

\* dict.get(key, {}) followed by .get(...) works only on a dict.
IsDict(v) == v.t = "dict"

\* isinstance(v, str)
IsStr(v) == v.t = "str"

\* isinstance(v, (int, float)); bool is a subclass of int in Python.
IsNumber(v) == v.t \in {"num", "bool"}

\* Python truthiness, as used by `or`, `not` and `if`.
Truthy(v) ==
    CASE v.t = "absent" -> FALSE
      [] v.t = "none" -> FALSE
      [] v.t = "str" -> v.s # <<>>
      [] v.t = "num" -> v.milli # 0
      [] v.t = "int" -> v.i # 0
      [] v.t = "bool" -> v.b
      [] v.t = "dict" -> \E k \in DOMAIN v \ {"t"} : v[k] # Absent

\* a or b
Or(a, b) == IF Truthy(a) THEN a ELSE b

\* The numeric value of a number or a boolean, in thousandths.
Milli(v) == IF v.t = "bool" THEN (IF v.b THEN 1000 ELSE 0) ELSE v.milli

\* round(): Python 3 rounds halves to the even neighbour. n is in tenths.
RoundHalfEven(n) ==
    LET q == n \div 10
        r == n % 10
    IN  IF r < 5 THEN q
        ELSE IF r > 5 THEN q + 1
        ELSE IF q % 2 = 0 THEN q ELSE q + 1

\* int(round(scaled * 100)): scaled * 100 is Milli(scaled) tenths.
ScoreOf(scaled) == RoundHalfEven(Milli(scaled))

\* "/" in s
HasSlash(s) == \E i \in 1..Len(s) : s[i] = "/"

\* s.split("/")[-1]: what follows the last "/", or all of s.
SplitLast(s) ==
    LET slashes == {i \in 1..Len(s) : s[i] = "/"}
        from == IF slashes = {} THEN 0
                ELSE CHOOSE i \in slashes : \A j \in slashes : j <= i
    IN  SubSeq(s, from + 1, Len(s))

\* sub in s
Contains(sub, s) ==
    \E i \in 0..(Len(s) - Len(sub)) : SubSeq(s, i + 1, i + Len(sub)) = sub

sCompleted == <<"c", "o", "m", "p", "l", "e", "t", "e", "d">>
sAttempted == <<"a", "t", "t", "e", "m", "p", "t", "e", "d">>
sVerbIdCompleted == <<"v", "/", "c", "o", "m", "p", "l", "e", "t", "e", "d">>
sU1 == <<"u", "1">>
sU2 == <<"u", "2">>
sEthics == <<"c", "-", "e", "t", "h", "i", "c", "s", "-", "1", "0", "1">>
sEthicsUrl == <<"l", "m", "s", "/">> \o sEthics
sGdpr == <<"c", "-", "g", "d", "p", "r">>
sT1 == <<"T", "1">>
sT2 == <<"T", "2">>

-----------------------------------------------------------------------------
(* Raw statements: the request bodies the Statement schema accepts.  actor, *)
(* verb and object are dicts of anything, result is a dict or None,         *)
(* timestamp a string or None (src/schemas.py 35-42).                       *)

Dict1(name) == [t |-> "dict", name |-> name]
Display(text) == [t |-> "dict", enUS |-> text]
ScoreDict(scaled) == [t |-> "dict", scaled |-> scaled]
Result(score, success, completion) ==
    [t |-> "dict", score |-> score, success |-> success, completion |-> completion]

Actor(account, mbox, openid) == [account |-> account, mbox |-> mbox, openid |-> openid]
Verb(display, id) == [display |-> display, id |-> id]
Object(id) == [id |-> id]

Statement(actor, verb, object, result, timestamp) ==
    [actor |-> actor, verb |-> verb, object |-> object, result |-> result,
     timestamp |-> timestamp]

ActorU1 == Actor(Dict1(Str(sU1)), Absent, Absent)
ActorU2 == Actor(Absent, Str(sU2), Absent)
VerbAttempted == Verb(Display(Str(sAttempted)), Absent)
VerbCompleted == Verb(Display(Str(sCompleted)), Absent)
ObjEthics == Object(Str(sEthicsUrl))
ObjGdpr == Object(Str(sGdpr))

\* The three events of the end-to-end scenario, in order.
EvAttempt == Statement(ActorU1, VerbAttempted, ObjEthics, NoneV, NoneV)
EvScored ==
    Statement(ActorU1, VerbAttempted, ObjEthics,
              Result(ScoreDict(Num(600)), Absent, Absent), Str(sT1))
EvCompleted ==
    Statement(ActorU1, VerbCompleted, ObjEthics,
              Result(Absent, BoolV(TRUE), BoolV(TRUE)), Str(sT2))

\* Verb "completed" without result.completion; an explicit success = false.
EvVerbOnly == Statement(ActorU1, VerbCompleted, ObjEthics, NoneV, NoneV)
EvFailed ==
    Statement(ActorU1, VerbAttempted, ObjEthics,
              Result(Absent, BoolV(FALSE), Absent), NoneV)

\* The same learner on another course, and another learner on the same course.
EvOtherCourse ==
    Statement(ActorU1, Verb(Absent, Str(sVerbIdCompleted)), ObjGdpr,
              Result(ScoreDict(Num(125)), Absent, BoolV(TRUE)), Str(sT1))
EvOtherLearner ==
    Statement(ActorU2, VerbAttempted, ObjEthics,
              Result(ScoreDict(Num(850)), Absent, Absent), Str(sT2))

\* A scaled score above 1.
EvOverScaled ==
    Statement(ActorU2, VerbAttempted, ObjEthics,
              Result(ScoreDict(Num(1500)), Absent, Absent), NoneV)

Identifiable ==
    {EvAttempt, EvScored, EvCompleted, EvVerbOnly, EvFailed, EvOtherCourse,
     EvOtherLearner, EvOverScaled}

\* Storable statements with missing or mistyped nested fields.
EvAccountNull ==
    Statement(Actor(NoneV, Absent, Absent), VerbAttempted, ObjEthics, NoneV, NoneV)
EvNoLearner ==
    Statement(Actor(Absent, Absent, Absent), VerbAttempted, ObjEthics, NoneV, NoneV)
EvIdNotString ==
    Statement(ActorU1, VerbCompleted, Object(IntV(5)), NoneV, NoneV)

EvNoObjectId ==
    Statement(ActorU2, VerbAttempted, Object(Absent), NoneV, Str(sT1))

Malformed == {EvAccountNull, EvNoLearner, EvIdNotString, EvNoObjectId}

Events == Identifiable \cup Malformed

Learners == {Str(sU1), Str(sU2)}

-----------------------------------------------------------------------------
(* record_statement: derivation of the convenience fields *)

EmptyAccount == Dict1(Absent)
EmptyDisplay == Display(Absent)
EmptyResult == Result(Absent, Absent, Absent)

\* data.get("actor", {}).get("account", {})
AccountOf(ev) == IF ev.actor.account = Absent THEN EmptyAccount ELSE ev.actor.account

\* .get("name") on something that is not a dict raises AttributeError.
DeriveRaises(ev) == ~IsDict(AccountOf(ev))

\* account name, or mbox, or openid
LearnerOf(ev) ==
    Or(Or(Get(AccountOf(ev).name), Get(ev.actor.mbox)), Get(ev.actor.openid))

\* activity_id.split("/")[-1] if isinstance(activity_id, str) else None
CourseOf(ev) ==
    LET activity_id == Get(ev.object.id)
    IN  IF IsStr(activity_id) THEN Str(SplitLast(activity_id.s)) ELSE NoneV

\* The document handed to create_document.
DataOf(ev, now) ==
    [actor |-> ev.actor, verb |-> ev.verb, object |-> ev.object,
     result |-> ev.result, timestamp |-> ev.timestamp, received_at |-> now,
     _learner_external_id |-> LearnerOf(ev), _course_id |-> CourseOf(ev)]

\* The request body a stored statement came from.
RawOf(st) == Statement(st.actor, st.verb, st.object, st.result, st.timestamp)

-----------------------------------------------------------------------------
(* update_progress_from_statement *)

\* if not learner_id or not course_id: return
Skips(st) == ~Truthy(st._learner_external_id) \/ ~Truthy(st._course_id)

\* result = st.get("result") or {}
ResultOf(st) == Or(Get(st.result), EmptyResult)

\* int(round(sc["scaled"] * 100)) when result.score.scaled is a number
ScoreFrom(result) ==
    LET sc == Get(result.score)
    IN  IF IsDict(sc) /\ IsNumber(Get(sc.scaled)) THEN IntV(ScoreOf(sc.scaled))
        ELSE NoneV

\* bool(result.get("success")) if "success" in result else None
SuccessFrom(result) ==
    IF result.success # Absent THEN BoolV(Truthy(result.success)) ELSE NoneV

\* "completed" if result.get("completion") else "in_progress"
LiveStatus(st) ==
    IF Truthy(Get(ResultOf(st).completion)) THEN "completed" ELSE "in_progress"

\* Variant: updated_at is a timestamp taken once, when the module is loaded.
SetFieldsNoStamp(st, now) ==
    [learner_external_id |-> st._learner_external_id,
     course_id |-> st._course_id,
     status |-> LiveStatus(st),
     score |-> ScoreFrom(ResultOf(st)),
     success |-> SuccessFrom(ResultOf(st)),
     last_statement_timestamp |-> Get(st.timestamp),
     updated_at |-> 0]

\* The "$set" document: every field is taken from this statement alone.
SetFields(st, now) ==
    [learner_external_id |-> st._learner_external_id,
     course_id |-> st._course_id,
     status |-> LiveStatus(st),
     score |-> ScoreFrom(ResultOf(st)),
     success |-> SuccessFrom(ResultOf(st)),
     last_statement_timestamp |-> Get(st.timestamp),
     updated_at |-> now]

\* Variant: a filter on the learner alone.
MatchesLearnerOnly(doc, learner, course) == doc.learner_external_id = learner

\* The filter {"learner_external_id": learner_id, "course_id": course_id}.
Matches(doc, learner, course) ==
    doc.learner_external_id = learner /\ doc.course_id = course

\* Variant: created_at written by "$set" instead of "$setOnInsert".
ApplySetStampsCreated(doc, set) ==
    [learner_external_id |-> set.learner_external_id,
     course_id |-> set.course_id,
     status |-> set.status,
     score |-> set.score,
     success |-> set.success,
     last_statement_timestamp |-> set.last_statement_timestamp,
     updated_at |-> set.updated_at,
     created_at |-> set.updated_at]

\* Variant: a score of None is left out of "$set", so the old score stays.
ApplySetKeepsScore(doc, set) ==
    [learner_external_id |-> set.learner_external_id,
     course_id |-> set.course_id,
     status |-> set.status,
     score |-> IF set.score = NoneV /\ "score" \in DOMAIN doc
               THEN doc.score ELSE set.score,
     success |-> set.success,
     last_statement_timestamp |-> set.last_statement_timestamp,
     updated_at |-> set.updated_at,
     created_at |-> doc.created_at]

\* A document after "$set": created_at is not among the fields set.
ApplySet(doc, set) ==
    [learner_external_id |-> set.learner_external_id,
     course_id |-> set.course_id,
     status |-> set.status,
     score |-> set.score,
     success |-> set.success,
     last_statement_timestamp |-> set.last_statement_timestamp,
     updated_at |-> set.updated_at,
     created_at |-> doc.created_at]

\* find_one_and_update(filter, {"$set": ..., "$setOnInsert": ...}, upsert=True):
\* the first matching document is updated; without one, a document is inserted.
FindOneAndUpdate(coll, learner, course, set, createdAt) ==
    LET hits == {i \in 1..Len(coll) : Matches(coll[i], learner, course)}
    IN  IF hits = {}
        THEN Append(coll, ApplySet([created_at |-> createdAt], set))
        ELSE LET i == CHOOSE h \in hits : \A g \in hits : h <= g
             IN  [coll EXCEPT ![i] = ApplySet(coll[i], set)]

\* The progress collection after update_progress_from_statement(st); the two
\* datetime.now() calls of the update document read now and now + 1.
UpdateProgress(coll, st, now) ==
    IF Skips(st) THEN coll
    ELSE FindOneAndUpdate(coll, st._learner_external_id, st._course_id,
                          SetFields(st, now), now + 1)

-----------------------------------------------------------------------------
(* get_progress: the fallback replay *)

\* st.get("_course_id") or st.get("object", {}).get("id"), then the last segment
FallbackCourse(st) ==
    LET course_id == Or(Get(st._course_id), Get(st.object.id))
    IN  IF IsStr(course_id) /\ HasSlash(course_id.s)
        THEN Str(SplitLast(course_id.s)) ELSE course_id

\* st.get("verb", {}).get("display", {})
DisplayOf(st) == IF st.verb.display = Absent THEN EmptyDisplay ELSE st.verb.display

\* .get("en-US") on a display that is not a dict raises AttributeError.
ReplayRaises(st) == ~IsDict(DisplayOf(st))

\* display["en-US"] or verb id
FallbackVerb(st) == Or(Get(DisplayOf(st).enUS), Get(st.verb.id))

\* verb and "completed" in str(verb), for the verbs that are strings or None
VerbSaysCompleted(verb) ==
    Truthy(verb) /\ IsStr(verb) /\ Contains(sCompleted, verb.s)

\* computed.setdefault(course_id, {...})
DefaultRec(course_id, st) ==
    [course_id |-> course_id, status |-> "in_progress", score |-> NoneV,
     success |-> NoneV, last_statement_timestamp |-> Get(st.timestamp)]

\* The body of the loop, applied to the record of the statement's course.
Fold(rec, st) ==
    LET result == ResultOf(st)
        score == ScoreFrom(result)
    IN  [course_id |-> rec.course_id,
         status |-> IF Truthy(Get(result.completion))
                       \/ VerbSaysCompleted(FallbackVerb(st))
                    THEN "completed" ELSE rec.status,
         score |-> IF score # NoneV THEN score ELSE rec.score,
         success |-> IF result.success # Absent
                     THEN BoolV(Truthy(result.success)) ELSE rec.success,
         last_statement_timestamp |->
             Or(Get(st.timestamp), rec.last_statement_timestamp)]

\* One iteration: computed is a dict in insertion order, kept as a sequence.
ReplayStep(computed, st) ==
    LET course_id == FallbackCourse(st)
        hits == {i \in 1..Len(computed) : computed[i].course_id = course_id}
    IN  IF hits = {}
        THEN Append(computed, Fold(DefaultRec(course_id, st), st))
        ELSE LET i == CHOOSE h \in hits : TRUE
             IN  [computed EXCEPT ![i] = Fold(computed[i], st)]

RECURSIVE Replay(_)
\* list(computed.values()) after the loop over the statements
Replay(stmts) ==
    IF stmts = <<>> THEN <<>>
    ELSE ReplayStep(Replay(SubSeq(stmts, 1, Len(stmts) - 1)), stmts[Len(stmts)])

-----------------------------------------------------------------------------
(* The storage port (database.py): create_document and get_documents *)

\* create_document("statement", data): insert, return the new id.
CreateDocument(coll, data) == Append(coll, data)
InsertedId(coll) == Len(coll) + 1

\* get_documents("statement", {"_learner_external_id": learner})
StatementsOf(coll, learner) ==
    LET Test(d) == d._learner_external_id = learner
    IN  SelectSeq(coll, Test)

\* get_documents("progress", {"learner_external_id": learner})
ProgressOf(coll, learner) ==
    LET Test(d) == d.learner_external_id = learner
    IN  SelectSeq(coll, Test)

-----------------------------------------------------------------------------
(* State machine *)

NoRequest == [op |-> "none", ev |-> NoneV, outcome |-> "none", repeat |-> FALSE]

Init ==
    /\ statements = <<>>
    /\ progress = <<>>
    /\ clock = 0
    /\ requests = 0
    /\ response = [kind |-> "none"]
    /\ last = NoRequest
    /\ upsertFailed = FALSE
    /\ inflight = {}
    /\ overlapped = FALSE

Ack(inserted_id) == [kind |-> "ack", id |-> inserted_id]
Error(name) == [kind |-> "error", error |-> name]

\* Variant: no try/except around the denormalization.
RespondPropagates(inserted_id, raised) ==
    IF raised THEN Error("storage") ELSE Ack(inserted_id)

\* try: update_progress_from_statement(data) / except Exception: pass /
\* return {"id": inserted_id}
Respond(inserted_id, raised) == Ack(inserted_id)

Ingested(ev, outcome) ==
    [op |-> "ingest", ev |-> ev, outcome |-> outcome,
     repeat |-> /\ outcome = "upserted"
                /\ last.op = "ingest"
                /\ last.outcome = "upserted"
                /\ last.ev = ev]

\* POST /xapi/statements with body ev.  primaryOk: create_document succeeds;
\* upsertOk: find_one_and_update succeeds.  A storage call that raises has
\* written nothing.
RecordStatement(ev, primaryOk, upsertOk) ==
    /\ requests < MaxRequests
    /\ requests' = requests + 1
    /\ UNCHANGED <<inflight, overlapped>>
    /\ LET data == DataOf(ev, clock)
       IN  IF DeriveRaises(ev)
           THEN /\ clock' = clock + 1
                /\ response' = Error("AttributeError")
                /\ last' = Ingested(ev, "derive_raised")
                /\ UNCHANGED <<statements, progress, upsertFailed>>
           ELSE IF ~primaryOk
           THEN /\ clock' = clock + 1
                /\ response' = Error("storage")
                /\ last' = Ingested(ev, "primary_failed")
                /\ UNCHANGED <<statements, progress, upsertFailed>>
           ELSE /\ statements' = CreateDocument(statements, data)
                /\ IF Skips(data)
                   THEN /\ clock' = clock + 1
                        /\ progress' = UpdateProgress(progress, data, clock + 1)
                        /\ response' = Respond(InsertedId(statements), FALSE)
                        /\ last' = Ingested(ev, "skipped")
                        /\ UNCHANGED upsertFailed
                   ELSE IF upsertOk
                   THEN /\ clock' = clock + 3
                        /\ progress' = UpdateProgress(progress, data, clock + 1)
                        /\ response' = Respond(InsertedId(statements), FALSE)
                        /\ last' = Ingested(ev, "upserted")
                        /\ UNCHANGED upsertFailed
                   ELSE /\ clock' = clock + 3
                        /\ progress' = progress
                        /\ response' = Respond(InsertedId(statements), TRUE)
                        /\ last' = Ingested(ev, "upsert_failed")
                        /\ upsertFailed' = TRUE

\* Variant: the computed records are saved to the progress collection.
GetProgressPersists(learner) ==
    /\ LET progress_items == ProgressOf(progress, learner)
           computed == Replay(StatementsOf(statements, learner))
       IN  IF progress_items # <<>>
           THEN /\ response' = [kind |-> "progress", learner |-> learner,
                                items |-> progress_items]
                /\ last' = [NoRequest EXCEPT !.op = "get_progress",
                                             !.outcome = "stored"]
                /\ UNCHANGED progress
           ELSE /\ response' = [kind |-> "progress", learner |-> learner,
                                items |-> computed]
                /\ last' = [NoRequest EXCEPT !.op = "get_progress",
                                             !.outcome = "computed"]
                /\ progress' = progress \o
                       [i \in 1..Len(computed) |->
                           [learner_external_id |-> learner,
                            course_id |-> computed[i].course_id,
                            status |-> computed[i].status,
                            score |-> computed[i].score,
                            success |-> computed[i].success,
                            last_statement_timestamp |->
                                computed[i].last_statement_timestamp,
                            updated_at |-> clock,
                            created_at |-> clock]]
    /\ UNCHANGED <<statements, clock, requests, upsertFailed, inflight,
                   overlapped>>

\* GET /progress/{learner}: the stored records if there are any, else the
\* records computed from the learner's statements; nothing is written.
GetProgress(learner) ==
    /\ LET progress_items == ProgressOf(progress, learner)
           stmts == StatementsOf(statements, learner)
       IN  IF progress_items # <<>>
           THEN /\ response' = [kind |-> "progress", learner |-> learner,
                                items |-> progress_items]
                /\ last' = [NoRequest EXCEPT !.op = "get_progress",
                                             !.outcome = "stored"]
           ELSE IF \E i \in 1..Len(stmts) : ReplayRaises(stmts[i])
           THEN /\ response' = Error("AttributeError")
                /\ last' = [NoRequest EXCEPT !.op = "get_progress",
                                             !.outcome = "replay_raised"]
           ELSE /\ response' = [kind |-> "progress", learner |-> learner,
                                items |-> Replay(stmts)]
                /\ last' = [NoRequest EXCEPT !.op = "get_progress",
                                             !.outcome = "computed"]
    /\ UNCHANGED <<statements, progress, clock, requests, upsertFailed,
                   inflight, overlapped>>

Next ==
    \/ \E ev \in Events, primaryOk \in BOOLEAN, upsertOk \in BOOLEAN :
           RecordStatement(ev, primaryOk, upsertOk)
    \/ \E learner \in Learners : GetProgress(learner)

Spec == Init /\ [][Next]_vars

-----------------------------------------------------------------------------
(* Concurrent requests.  record_statement is a plain def, which FastAPI runs *)
(* on a thread pool, so two requests interleave at their storage calls.      *)
(* MongoDB applies an update to a matched document atomically; an upsert     *)
(* that matches no document inserts one, and with no unique index on the     *)
(* filter fields (none is created here) two upserts that both matched        *)
(* nothing both insert.                                                      *)

\* Variant: an exception of create_document is swallowed like the upsert's.
BeginUnstored(ev, primaryOk) ==
    /\ requests < MaxRequests
    /\ Cardinality(inflight) < MaxInFlight
    /\ requests' = requests + 1
    /\ clock' = clock + 1
    /\ UNCHANGED <<progress, upsertFailed>>
    /\ LET data == DataOf(ev, clock)
       IN  IF DeriveRaises(ev)
           THEN /\ response' = Error("AttributeError")
                /\ last' = Ingested(ev, "derive_raised")
                /\ UNCHANGED <<statements, inflight, overlapped>>
           ELSE /\ statements' = IF primaryOk THEN CreateDocument(statements, data)
                                 ELSE statements
                /\ IF Skips(data)
                   THEN /\ response' = Respond(InsertedId(statements), FALSE)
                        /\ last' = Ingested(ev, "skipped")
                        /\ UNCHANGED <<inflight, overlapped>>
                   ELSE /\ inflight' = inflight \cup
                               {[data |-> data, id |-> InsertedId(statements),
                                 phase |-> "stored"]}
                        /\ overlapped' = (overlapped \/ inflight # {})
                        /\ last' = Ingested(ev, "in_flight")
                        /\ UNCHANGED response

\* record_statement up to and including create_document (lines 134-147), and
\* the early return of update_progress_from_statement.
Begin(ev, primaryOk) ==
    /\ requests < MaxRequests
    /\ Cardinality(inflight) < MaxInFlight
    /\ requests' = requests + 1
    /\ clock' = clock + 1
    /\ UNCHANGED <<progress, upsertFailed>>
    /\ LET data == DataOf(ev, clock)
       IN  IF DeriveRaises(ev)
           THEN /\ response' = Error("AttributeError")
                /\ last' = Ingested(ev, "derive_raised")
                /\ UNCHANGED <<statements, inflight, overlapped>>
           ELSE IF ~primaryOk
           THEN /\ response' = Error("storage")
                /\ last' = Ingested(ev, "primary_failed")
                /\ UNCHANGED <<statements, inflight, overlapped>>
           ELSE /\ statements' = CreateDocument(statements, data)
                /\ IF Skips(data)
                   THEN /\ response' = Respond(InsertedId(statements), FALSE)
                        /\ last' = Ingested(ev, "skipped")
                        /\ UNCHANGED <<inflight, overlapped>>
                   ELSE /\ inflight' = inflight \cup
                               {[data |-> data, id |-> InsertedId(statements),
                                 phase |-> "stored"]}
                        /\ overlapped' = (overlapped \/ inflight # {})
                        /\ last' = Ingested(ev, "in_flight")
                        /\ UNCHANGED response

\* find_one_and_update of request r: the query, and the update of the matched
\* document; with no match the insert is still to come.
Upsert(r, upsertOk) ==
    /\ r \in inflight
    /\ r.phase = "stored"
    /\ clock' = clock + 2
    /\ UNCHANGED <<statements, requests, overlapped>>
    /\ LET st == r.data
           set == SetFields(st, clock)
           hit == \E i \in 1..Len(progress) :
                      Matches(progress[i], st._learner_external_id, st._course_id)
       IN  IF ~upsertOk
           THEN /\ inflight' = inflight \ {r}
                /\ response' = Respond(r.id, TRUE)
                /\ last' = Ingested(RawOf(st), "upsert_failed")
                /\ upsertFailed' = TRUE
                /\ UNCHANGED progress
           ELSE IF hit
           THEN /\ progress' = UpdateProgress(progress, st, clock)
                /\ inflight' = inflight \ {r}
                /\ response' = Respond(r.id, FALSE)
                /\ last' = Ingested(RawOf(st), "upserted")
                /\ UNCHANGED upsertFailed
           ELSE /\ inflight' = (inflight \ {r}) \cup
                        {[data |-> st, id |-> r.id, phase |-> "inserting",
                          doc |-> ApplySet([created_at |-> clock + 1], set)]}
                /\ UNCHANGED <<progress, response, last, upsertFailed>>

\* The insert of an upsert that matched no document.
Insert(r) ==
    /\ r \in inflight
    /\ r.phase = "inserting"
    /\ progress' = Append(progress, r.doc)
    /\ inflight' = inflight \ {r}
    /\ response' = Respond(r.id, FALSE)
    /\ last' = Ingested(RawOf(r.data), "upserted")
    /\ UNCHANGED <<statements, clock, requests, upsertFailed, overlapped>>

\* The request bodies of the concurrent runs: two events of one pair that
\* carry different signals, another pair, a skipped and a failing one.
EventsConc == {EvScored, EvCompleted, EvOtherCourse, EvNoLearner, EvAccountNull}

NextConc ==
    \/ \E ev \in EventsConc, primaryOk \in BOOLEAN : Begin(ev, primaryOk)
    \/ \E r \in inflight, upsertOk \in BOOLEAN : Upsert(r, upsertOk)
    \/ \E r \in inflight : Insert(r)

SpecConc == Init /\ [][NextConc]_vars

-----------------------------------------------------------------------------
(* Properties *)

Courses == {Str(sEthics), Str(sGdpr)}

\* The stored progress documents of the pair (learner, course).
Stored(coll, learner, course) ==
    {coll[i] : i \in {j \in 1..Len(coll) :
        coll[j].learner_external_id = learner /\ coll[j].course_id = course}}

\* The progress documents of every other pair, in order.
Others(coll, learner, course) ==
    LET Test(d) == ~(d.learner_external_id = learner /\ d.course_id = course)
    IN  SelectSeq(coll, Test)

Core(rec) == <<rec.status, rec.score, rec.success>>

\* The step is a POST /xapi/statements request.
IngestStep == requests' = requests + 1

\* The step is a request whose progress upsert was applied.
UpsertStep == IngestStep /\ last'.outcome = "upserted"

\* The extractor of the specification: account name, else mbox, else openid;
\* a mistyped account gives no name.
ClaimLearner(ev) ==
    LET name == IF IsDict(AccountOf(ev)) THEN Get(AccountOf(ev).name) ELSE NoneV
    IN  Or(Or(name, Get(ev.actor.mbox)), Get(ev.actor.openid))

\* completed: result.completion truthy, or the verb text contains "completed".
ClaimCompleting(ev) ==
    \/ Truthy(Get(Or(ev.result, EmptyResult).completion))
    \/ LET display == IF IsDict(ev.verb.display) THEN Get(ev.verb.display.enUS)
                      ELSE NoneV
           verb == Or(display, Get(ev.verb.id))
       IN  IsStr(verb) /\ Contains(sCompleted, verb.s)

\* C1: when every stored statement is for one learner and one course and no
\* upsert failed, the stored record of the pair has the (status, score,
\* success) the fallback replay computes for that course from the same
\* statements in the same order.
LiveEqualsReplay_C1 ==
    \A l \in Learners, c \in Courses :
        ( /\ ~upsertFailed
          /\ statements # <<>>
          /\ \A i \in 1..Len(statements) :
                 /\ statements[i]._learner_external_id = l
                 /\ statements[i]._course_id = c )
        => LET replayed == Replay(StatementsOf(statements, l))
           IN  /\ Stored(progress, l, c) # {}
               /\ \A d \in Stored(progress, l, c) :
                      \E i \in 1..Len(replayed) :
                          /\ replayed[i].course_id = c
                          /\ Core(replayed[i]) = Core(d)

\* C2: after the three scenario events, ingested in order with every upsert
\* applied, the record of ("u1", "c-ethics-101") is completed, 60, true.
Scenario_C2 ==
    ( /\ ~upsertFailed
      /\ Len(statements) = 3
      /\ RawOf(statements[1]) = EvAttempt
      /\ RawOf(statements[2]) = EvScored
      /\ RawOf(statements[3]) = EvCompleted )
    => \E d \in Stored(progress, Str(sU1), Str(sEthics)) :
           /\ d.status = "completed"
           /\ d.score = IntV(60)
           /\ d.success = BoolV(TRUE)

\* C3: an event merged into an existing record replaces score, success and
\* last_event_time where it carries them (an explicit success = false is
\* carried) and leaves them as they were where it does not.
MergeKeeps_C3 ==
    [][UpsertStep =>
        LET ev == last'.ev
            result == Or(ev.result, EmptyResult)
        IN  \A i \in 1..Len(progress) :
                ( /\ progress[i].learner_external_id = LearnerOf(ev)
                  /\ progress[i].course_id = CourseOf(ev) )
                => /\ progress'[i].score =
                          IF ScoreFrom(result) # NoneV THEN ScoreFrom(result)
                          ELSE progress[i].score
                   /\ progress'[i].success =
                          IF result.success # Absent
                          THEN BoolV(Truthy(result.success))
                          ELSE progress[i].success
                   /\ progress'[i].last_statement_timestamp =
                          IF Get(ev.timestamp) # NoneV THEN ev.timestamp
                          ELSE progress[i].last_statement_timestamp]_vars

\* C4: a pair whose stored status is completed never has a stored status
\* in_progress afterwards.
Monotonic_C4 ==
    [][\A l \in Learners, c \in Courses :
        (\E d \in Stored(progress, l, c) : d.status = "completed")
        => \A d \in Stored(progress', l, c) : d.status = "completed"]_vars

\* C5: on the live path an event whose result.completion is truthy or whose
\* verb text contains "completed" leaves the stored status completed, and a
\* non-completing event on a new pair leaves it in_progress.
LiveCompletion_C5 ==
    [][UpsertStep =>
        LET ev == last'.ev
            l == LearnerOf(ev)
            c == CourseOf(ev)
        IN  /\ ClaimCompleting(ev)
               => \A d \in Stored(progress', l, c) : d.status = "completed"
            /\ (~ClaimCompleting(ev) /\ Stored(progress, l, c) = {})
               => \A d \in Stored(progress', l, c) : d.status = "in_progress"]_vars

\* C6: applying an event a second time, right after applying it, changes
\* nothing in the progress collection but updated_at.
SameButUpdatedAt(a, b) == [a EXCEPT !.updated_at = 0] = [b EXCEPT !.updated_at = 0]

Idempotent_C6 ==
    [][(IngestStep /\ last'.repeat) =>
        /\ Len(progress') = Len(progress)
        /\ \A i \in 1..Len(progress) :
               SameButUpdatedAt(progress[i], progress'[i])]_vars

\* C6: the same event has been applied twice in a row.
Witness_C6 == last.repeat /\ Stored(progress, LearnerOf(last.ev), CourseOf(last.ev)) # {}

\* C7: ingesting an event with derived key (L1, C1) leaves the progress
\* documents of every other key as they were, none added and none removed.
KeyIsolation_C7 ==
    [][(IngestStep /\ last'.outcome # "derive_raised") =>
        LET l == LearnerOf(last'.ev)
            c == CourseOf(last'.ev)
        IN  Others(progress', l, c) = Others(progress, l, c)]_vars

\* C7: an upsert was applied while another key has a stored record.
Witness_C7 ==
    /\ last.outcome = "upserted"
    /\ Others(progress, LearnerOf(last.ev), CourseOf(last.ev)) # <<>>
    /\ Stored(progress, LearnerOf(last.ev), CourseOf(last.ev)) # {}

\* C8: an event from which no learner_id or no course_id can be derived
\* changes no progress record, raises no error, and is stored and
\* acknowledged (the primary write succeeding).
Skip_C8 ==
    [][( /\ IngestStep
         /\ last'.outcome # "primary_failed"
         /\ ~Truthy(ClaimLearner(last'.ev)) \/ ~Truthy(CourseOf(last'.ev)) )
       => /\ progress' = progress
          /\ response' = Ack(Len(statements'))
          /\ Len(statements') = Len(statements) + 1
          /\ RawOf(statements'[Len(statements')]) = last'.ev]_vars

\* C9: when the progress upsert raises, the statement written before it is
\* stored and the caller gets the acknowledgement with the inserted id.
BestEffort_C9 ==
    (last.op = "ingest" /\ last.outcome = "upsert_failed")
    => /\ statements # <<>>
       /\ RawOf(statements[Len(statements)]) = last.ev
       /\ response = Ack(Len(statements))

\* C9: a request whose progress upsert raised.
Witness_C9 == last.op = "ingest" /\ last.outcome = "upsert_failed"

\* C10: every storable event, whatever its nested fields, is stored and
\* acknowledged (the primary write succeeding).
NeverFails_C10 ==
    (last.op = "ingest" /\ last.outcome # "primary_failed")
    => /\ response = Ack(Len(statements))
       /\ statements # <<>>
       /\ RawOf(statements[Len(statements)]) = last.ev

\* The statement carries the signal the stored document d must then show.
Reflects(d, st) ==
    /\ ScoreFrom(ResultOf(st)) # NoneV => d.score # NoneV
    /\ ResultOf(st).success # Absent => d.success # NoneV
    /\ Truthy(Get(ResultOf(st).completion)) => d.status = "completed"

\* C11: after two concurrent ingests of one pair, both upserts applied, the
\* stored record of the pair shows the signals of both events.
NoLostUpdate_C11 ==
    \A l \in Learners, c \in Courses :
        ( /\ overlapped
          /\ inflight = {}
          /\ ~upsertFailed
          /\ Len(statements) = 2
          /\ \A i \in 1..2 : /\ statements[i]._learner_external_id = l
                             /\ statements[i]._course_id = c )
        => /\ Stored(progress, l, c) # {}
           /\ \A d \in Stored(progress, l, c) :
                  Reflects(d, statements[1]) /\ Reflects(d, statements[2])

\* C12: the progress collection holds at most one document per
\* (learner_external_id, course_id) pair.
Unique_C12 ==
    \A l \in Learners, c \in Courses :
        Cardinality({i \in 1..Len(progress) :
            /\ progress[i].learner_external_id = l
            /\ progress[i].course_id = c}) <= 1

\* The step is a GET /progress/{learner} request.
GetStep == last'.op = "get_progress" /\ requests' = requests

\* C13: get_progress returns the stored records of the learner when there is
\* at least one, the replay of the learner's statements only when there is
\* none, and writes to neither collection.
GetProgressReads_C13 ==
    [][(GetStep /\ response'.kind = "progress") =>
        LET l == response'.learner
            stored == {i \in 1..Len(progress) : progress[i].learner_external_id = l}
        IN  /\ progress' = progress
            /\ statements' = statements
            /\ stored # {} =>
                   /\ last'.outcome = "stored"
                   /\ Len(response'.items) = Cardinality(stored)
                   /\ \A i \in stored :
                          \E k \in 1..Len(response'.items) :
                              response'.items[k] = progress[i]
            /\ stored = {} =>
                   /\ last'.outcome = "computed"
                   /\ response'.items = Replay(StatementsOf(statements, l))]_vars

\* C13: records were computed from statements and returned.
Witness_C13 ==
    /\ last.op = "get_progress"
    /\ last.outcome = "computed"
    /\ response.items # <<>>
    /\ progress # <<>>

\* C14: the replay returns one record per distinct present course_id of the
\* learner's statements, and none for statements without a course_id.
ReplayGroups_C14 ==
    (last.op = "get_progress" /\ last.outcome = "computed")
    => LET items == response.items
           stmts == StatementsOf(statements, response.learner)
           present == {stmts[i]._course_id : i \in
                          {j \in 1..Len(stmts) : Truthy(stmts[j]._course_id)}}
       IN  /\ \A k \in 1..Len(items) :
                  IsStr(items[k].course_id) /\ Truthy(items[k].course_id)
           /\ {items[k].course_id : k \in 1..Len(items)} = present
           /\ Len(items) = Cardinality(present)

\* A score is null or an integer from 0 to 100.
ScoreInRange(v) == v = NoneV \/ (v.t = "int" /\ v.i >= 0 /\ v.i <= 100)

\* C15: every stored and every computed progress record has a score that is
\* null or in 0..100 and a status in_progress or completed.
ScoreRange_C15 ==
    /\ \A i \in 1..Len(progress) :
           /\ ScoreInRange(progress[i].score)
           /\ progress[i].status \in {"in_progress", "completed"}
    /\ response.kind = "progress" =>
           \A k \in 1..Len(response.items) :
               /\ ScoreInRange(response.items[k].score)
               /\ response.items[k].status \in {"in_progress", "completed"}

\* C16: created_at is the time of the request that created the record and no
\* later ingest changes it; every merge sets updated_at to the time of its
\* request.
Timestamps_C16 ==
    [][UpsertStep =>
        LET l == LearnerOf(last'.ev)
            c == CourseOf(last'.ev)
            now == clock..(clock' - 1)
        IN  /\ \A i \in 1..Len(progress) :
                   progress'[i].created_at = progress[i].created_at
            /\ \A i \in 1..Len(progress') :
                   ( /\ progress'[i].learner_external_id = l
                     /\ progress'[i].course_id = c )
                   => /\ progress'[i].updated_at \in now
                      /\ i > Len(progress) => progress'[i].created_at \in now]_vars

\* C16: an event was merged into a record created by an earlier request.
Witness_C16 ==
    /\ last.outcome = "upserted"
    /\ \E d \in Stored(progress, LearnerOf(last.ev), CourseOf(last.ev)) :
           d.updated_at > d.created_at

\* The last stored statement of the pair (learner, course).
LastStatement(learner, course) ==
    LET of == {i \in 1..Len(statements) :
                  /\ statements[i]._learner_external_id = learner
                  /\ statements[i]._course_id = course}
    IN  statements[CHOOSE i \in of : \A j \in of : j <= i]

StatementFirst_C18 ==
    [][ /\ \A i \in 1..Len(progress') :
               \E k \in 1..Len(statements') :
                   /\ statements'[k]._learner_external_id =
                          progress'[i].learner_external_id
                   /\ statements'[k]._course_id = progress'[i].course_id
        /\ (IngestStep /\ last'.outcome = "primary_failed")
           => /\ response'.kind = "error"
              /\ progress' = progress
              /\ statements' = statements ]_vars

\* C18: a statement write has failed while progress records exist.
Witness_C18 ==
    /\ last.outcome = "primary_failed"
    /\ response.kind = "error"
    /\ progress # <<>>

====
